---- MODULE Spec2Model ----
(***************************************************************************)
(* Elsea Grosir API (src/main.py, src/schemas.py): a product catalogue and *)
(* a contact-message intake over a document store.                         *)
(*                                                                         *)
(* Text is modelled as a sequence of code points, so that ordering         *)
(* (sorted), case folding and regular-expression search are computed.      *)
(* An Optional value is None == <<>> or Some(v) == <<v>>.                  *)
(***************************************************************************)
EXTENDS Integers, Sequences, FiniteSets, TLC

VARIABLES
  dbAvailable,  \* the process-wide handle `db`: FALSE when it is None
  store,        \* the document store: collection name -> sequence of documents
  nextId,       \* the store's next identifier
  phase,        \* "starting" | "serving" | "aborted"
  printed,      \* what the startup handler printed (None or Some(message))
  seedPath,     \* the path the last seeding took
  req,          \* the last request
  resp          \* the response to it

vars == <<dbAvailable, store, nextId, phase, printed, seedPath, req, resp>>

-----------------------------------------------------------------------------
(* Bounds of the model *)

MaxDocs == 2

MaxContacts == 1

-----------------------------------------------------------------------------
(* Text *)

None == <<>>

Some(v) == <<v>>

Truthy(o) == o # None /\ o[1] # <<>>

\* "Beras Premium 5kg"
T_Beras ==
  <<66, 101, 114, 97, 115, 32, 80, 114, 101, 109, 105, 117, 109, 32, 53, 107, 103>>
\* "Beras pulen kualitas premium, cocok untuk kebutuhan rumah tangga."
D_Beras ==
  <<66, 101, 114, 97, 115, 32, 112, 117, 108, 101, 110, 32, 107, 117, 97, 108, 105, 116, 97, 115, 32, 112, 114, 101, 109, 105, 117, 109, 44, 32, 99, 111, 99, 111, 107, 32, 117, 110, 116, 117, 107, 32, 107, 101, 98, 117, 116, 117, 104, 97, 110, 32, 114, 117, 109, 97, 104, 32, 116, 97, 110, 103, 103, 97, 46>>
\* "Minyak Goreng 1 Liter"
T_Minyak ==
  <<77, 105, 110, 121, 97, 107, 32, 71, 111, 114, 101, 110, 103, 32, 49, 32, 76, 105, 116, 101, 114>>
\* "Minyak goreng sawit kemasan 1L, jernih dan berkualitas."
D_Minyak ==
  <<77, 105, 110, 121, 97, 107, 32, 103, 111, 114, 101, 110, 103, 32, 115, 97, 119, 105, 116, 32, 107, 101, 109, 97, 115, 97, 110, 32, 49, 76, 44, 32, 106, 101, 114, 110, 105, 104, 32, 100, 97, 110, 32, 98, 101, 114, 107, 117, 97, 108, 105, 116, 97, 115, 46>>
\* "Gula Pasir 1kg"
T_Gula ==
  <<71, 117, 108, 97, 32, 80, 97, 115, 105, 114, 32, 49, 107, 103>>
\* "Gula pasir putih kristal berkualitas."
D_Gula ==
  <<71, 117, 108, 97, 32, 112, 97, 115, 105, 114, 32, 112, 117, 116, 105, 104, 32, 107, 114, 105, 115, 116, 97, 108, 32, 98, 101, 114, 107, 117, 97, 108, 105, 116, 97, 115, 46>>
\* "Telur Ayam 1 Tray (30 butir)"
T_Telur ==
  <<84, 101, 108, 117, 114, 32, 65, 121, 97, 109, 32, 49, 32, 84, 114, 97, 121, 32, 40, 51, 48, 32, 98, 117, 116, 105, 114, 41>>
\* "Telur ayam segar langsung dari peternak."
D_Telur ==
  <<84, 101, 108, 117, 114, 32, 97, 121, 97, 109, 32, 115, 101, 103, 97, 114, 32, 108, 97, 110, 103, 115, 117, 110, 103, 32, 100, 97, 114, 105, 32, 112, 101, 116, 101, 114, 110, 97, 107, 46>>
\* "Tepung Terigu 1kg"
T_Tepung ==
  <<84, 101, 112, 117, 110, 103, 32, 84, 101, 114, 105, 103, 117, 32, 49, 107, 103>>
\* "Tepung terigu serbaguna untuk berbagai olahan."
D_Tepung ==
  <<84, 101, 112, 117, 110, 103, 32, 116, 101, 114, 105, 103, 117, 32, 115, 101, 114, 98, 97, 103, 117, 110, 97, 32, 117, 110, 116, 117, 107, 32, 98, 101, 114, 98, 97, 103, 97, 105, 32, 111, 108, 97, 104, 97, 110, 46>>
\* "beras"
C_beras ==
  <<98, 101, 114, 97, 115>>
\* "minyak"
C_minyak ==
  <<109, 105, 110, 121, 97, 107>>
\* "gula"
C_gula ==
  <<103, 117, 108, 97>>
\* "telur"
C_telur ==
  <<116, 101, 108, 117, 114>>
\* "tepung"
C_tepung ==
  <<116, 101, 112, 117, 110, 103>>

\* The fixed sample catalogue of _seed_products_if_empty.
sample_products ==
  << [title |-> T_Beras, description |-> Some(D_Beras), price |-> 78000,
      category |-> C_beras, in_stock |-> TRUE, unit |-> "pack",
      image_url |->
        Some("https://images.unsplash.com/photo-1604908554007-27b99b2b8d11?q=80&w=800&auto=format&fit=crop"), discount |-> 10],
     [title |-> T_Minyak, description |-> Some(D_Minyak), price |-> 17000,
      category |-> C_minyak, in_stock |-> TRUE, unit |-> "liter",
      image_url |->
        Some("https://images.unsplash.com/photo-1625944528148-8b1877fa9afd?q=80&w=800&auto=format&fit=crop"), discount |-> 5],
     [title |-> T_Gula, description |-> Some(D_Gula), price |-> 15000,
      category |-> C_gula, in_stock |-> TRUE, unit |-> "kg",
      image_url |->
        Some("https://images.unsplash.com/photo-1603833665858-e61d17a86224?q=80&w=800&auto=format&fit=crop"), discount |-> 0],
     [title |-> T_Telur, description |-> Some(D_Telur), price |-> 57000,
      category |-> C_telur, in_stock |-> TRUE, unit |-> "tray",
      image_url |->
        Some("https://images.unsplash.com/photo-1517959105821-eaf2591984bd?q=80&w=800&auto=format&fit=crop"), discount |-> 8],
     [title |-> T_Tepung, description |-> Some(D_Tepung), price |-> 12000,
      category |-> C_tepung, in_stock |-> TRUE, unit |-> "kg",
      image_url |->
        Some("https://images.unsplash.com/photo-1519682337058-a94d519337bc?q=80&w=800&auto=format&fit=crop"), discount |-> 0] >>

-----------------------------------------------------------------------------
(* Text operations *)

Min(a, b) == IF a <= b THEN a ELSE b

Abs(n) == IF n < 0 THEN 0 - n ELSE n

\* Case folding of the "i" option, on ASCII letters.
Lower(c) == IF c >= 65 /\ c <= 90 THEN c + 32 ELSE c

\* "." : the regular-expression metacharacter that matches any character.
Dot == 46

\* One pattern character against one text character under {"$options": "i"}.
CharMatches(p, c) == p = Dot \/ Lower(p) = Lower(c)

\* {"$regex": pattern, "$options": "i"}: an unanchored search of `text` for
\* `pattern`, where the pattern is made of literal characters and ".".
RegexSearch(pattern, text) ==
  \E off \in 0..(Len(text) - Len(pattern)) :
    \A i \in 1..Len(pattern) : CharMatches(pattern[i], text[off + i])

\* Python's order on str: lexicographic on code points, a prefix first.
StrLess(a, b) ==
  \E k \in 1..(Len(b)) :
    /\ k <= Len(a) + 1
    /\ \A i \in 1..(k - 1) : a[i] = b[i]
    /\ (k = Len(a) + 1 \/ a[k] < b[k])

RECURSIVE Insert(_, _)
Insert(x, s) ==
  IF s = <<>> THEN <<x>>
  ELSE IF StrLess(x, Head(s)) THEN <<x>> \o s
  ELSE <<Head(s)>> \o Insert(x, Tail(s))

\* sorted(list) on a list of str.
RECURSIVE sorted(_)
sorted(s) == IF s = <<>> THEN <<>> ELSE Insert(Head(s), sorted(Tail(s)))

Range(s) == {s[i] : i \in 1..Len(s)}

\* A list without its repeated values, first occurrences kept.
RECURSIVE Dedup(_)
Dedup(s) ==
  IF s = <<>> THEN <<>>
  ELSE LET front == Dedup(SubSeq(s, 1, Len(s) - 1))
           x == s[Len(s)]
       IN IF x \in Range(front) THEN front ELSE Append(front, x)

HexDigit(d) == IF d < 10 THEN 48 + d ELSE 87 + d

\* str(identifier): the identifier's hexadecimal digits.
RECURSIVE IdStr(_)
IdStr(n) ==
  IF n < 16 THEN <<HexDigit(n)>> ELSE Append(IdStr(n \div 16), HexDigit(n % 16))

-----------------------------------------------------------------------------
(* Schemas (src/schemas.py) *)

Has(d, f) == f \in DOMAIN d

\* Product: the fields a document must carry.
ProductRequired == {"title", "price", "category"}

\* Product(**d) is accepted: required fields present, price >= 0,
\* 0 <= discount <= 100.
ProductValid(d) ==
  /\ ProductRequired \subseteq DOMAIN d
  /\ d.price >= 0
  /\ Has(d, "discount") => (d.discount >= 0 /\ d.discount <= 100)

\* Product(**d): the declared fields only, defaults filled in.
Product(d) ==
  [title |-> d.title,
   description |-> IF Has(d, "description") THEN d.description ELSE None,
   price |-> d.price,
   category |-> d.category,
   in_stock |-> IF Has(d, "in_stock") THEN d.in_stock ELSE TRUE,
   unit |-> IF Has(d, "unit") THEN d.unit ELSE "kg",
   image_url |-> IF Has(d, "image_url") THEN d.image_url ELSE None,
   discount |-> IF Has(d, "discount") THEN d.discount ELSE 0]

\* ContactMessage: the fields a body must carry (phone is optional).
\* A fault: `message` not required.
ContactRequiredMissing == {"name", "email"}

ContactRequired == {"name", "email", "message"}

\* The request body is accepted as a ContactMessage.
ContactValid(body) == ContactRequired \subseteq DOMAIN body

\* ContactMessage(**body): the declared fields, phone defaulting to None.
ContactMessage(body) ==
  [f \in {"name", "email", "phone", "message"} |->
     IF Has(body, f) THEN body[f] ELSE None]

-----------------------------------------------------------------------------
(* The document store *)

WithId(doc, id) ==
  [f \in DOMAIN doc \cup {"_id"} |-> IF f = "_id" THEN id ELSE doc[f]]

\* d.pop("_id", None)
PopId(d) == [f \in DOMAIN d \ {"_id"} |-> d[f]]

\* create_document(collection, data): one record inserted, its identifier
\* returned as a string; StoreUnavailable without a connection, WriteError
\* when the insertion fails.
create_document(avail, fails, st, nid, collection, data) ==
  IF ~avail THEN
    [raised |-> Some("StoreUnavailable"), store |-> st, nextId |-> nid,
     id |-> <<>>, ops |-> <<>>]
  ELSE IF fails THEN
    [raised |-> Some("WriteError"), store |-> st, nextId |-> nid,
     id |-> <<>>, ops |-> <<"insert_one">>]
  ELSE
    [raised |-> None,
     store |-> [st EXCEPT ![collection] = Append(@, WithId(data, nid))],
     nextId |-> nid + 1, id |-> IdStr(nid), ops |-> <<"insert_one">>]

\* The filter of list_products: category when truthy, "$or" when q is truthy.
BuildFilter(q, category) ==
  [category |-> IF Truthy(category) THEN category ELSE None,
   or |-> IF Truthy(q) THEN q ELSE None]

\* Whether document d matches the filter: equality on category, and the
\* "$or" of the two "$regex" conditions on title and description.
Matches(d, filt) ==
  /\ filt.category # None =>
       (Has(d, "category") /\ d.category = filt.category[1])
  /\ filt.or # None =>
       \/ Has(d, "title") /\ RegexSearch(filt.or[1], d.title)
       \/ /\ Has(d, "description")
          /\ d.description # None
          /\ RegexSearch(filt.or[1], d.description[1])

\* get_documents(collection, filter, limit): up to `limit` matching records
\* in store-native order.
get_documents(st, collection, filt, limit) ==
  LET matching == SelectSeq(st[collection], LAMBDA d : Matches(d, filt))
  IN SubSeq(matching, 1, Min(limit, Len(matching)))

\* cursor.limit(n): 0 is no limit, a negative n limits to |n|.
CursorLimit(s, n) ==
  IF n = 0 THEN s ELSE SubSeq(s, 1, Min(Abs(n), Len(s)))

\* find({"discount": {"$gte": 5}})
DiscountAtLeast(d, n) == Has(d, "discount") /\ d.discount >= n

FeaturedMinDiscount == 5

\* The orders .sort("discount", -1) can give `s`: every arrangement with
\* discount non-increasing (the order among equal discounts is the store's).
SortedByDiscountDesc(s) ==
  LET n == Len(s)
      perms == {p \in [1..n -> 1..n] : \A i, j \in 1..n : i # j => p[i] # p[j]}
  IN {[i \in 1..n |-> s[p[i]]] : p \in
        {p \in perms : \A i \in 1..n : \A j \in i..n :
                           s[p[i]].discount >= s[p[j]].discount}}

\* db["product"].distinct("category"): the distinct values of the field.
Distinct(docs, field) ==
  LET having == SelectSeq(docs, LAMBDA d : Has(d, field))
  IN Dedup([i \in 1..Len(having) |-> having[i][field]])

-----------------------------------------------------------------------------
(* Product collections the store may hold when the process starts *)

\* "AB"
S_AB == <<65, 66>>
\* "a.b"
S_a_b == <<97, 46, 98>>
\* "xy"
S_xy == <<120, 121>>
\* "."
S_dot == <<46>>

\* Documents written to the product collection by other writers. The store
\* has no schema: a document may lack a field of Product.
PoolDocs ==
  << [title |-> S_AB, price |-> 1000, category |-> C_gula, discount |-> 0],
     [title |-> S_xy, description |-> Some(C_beras), price |-> 2000,
      category |-> C_beras, in_stock |-> FALSE, unit |-> "pack",
      discount |-> 5],
     [title |-> S_a_b, description |-> Some(<<>>), price |-> 0,
      category |-> <<>>, discount |-> 100],
     [title |-> T_Beras, description |-> None, price |-> 500,
      category |-> C_gula, discount |-> 50],
     [title |-> S_dot, price |-> 500, discount |-> 5] >>

PoolIds == 1..Len(PoolDocs)

\* The sequences of at most MaxDocs distinct pool documents, each stored
\* under its own identifier.
InitContents ==
  LET picks == UNION {[1..n -> PoolIds] : n \in 0..MaxDocs}
  IN {[i \in DOMAIN p |-> WithId(PoolDocs[p[i]], p[i])] :
        p \in {f \in picks : \A i, j \in DOMAIN f : i # j => f[i] # f[j]}}

-----------------------------------------------------------------------------
(* Requests and responses *)

NoReq ==
  [route |-> "", q |-> None, category |-> None, limit |-> 0, body |-> None]

NoResp ==
  [route |-> "", status |-> 0, detail |-> "", message |-> "",
   items |-> <<>>, total |-> 0, categories |-> <<>>, list |-> <<>>,
   collections |-> <<>>, body_status |-> "", id |-> <<>>,
   storeOps |-> <<>>, storeError |-> FALSE]

\* An exception no handler catches: the framework answers 500.
Unhandled(route, ops) ==
  [NoResp EXCEPT !.route = route, !.status = 500,
                 !.detail = "Internal Server Error", !.storeOps = ops]

\* A store query of a read handler raises: no handler catches it.
StoreError(route, ops) ==
  [Unhandled(route, ops) EXCEPT !.storeError = TRUE]

\* raise HTTPException(status_code, detail)
HTTPException(route, status_code, detail, ops) ==
  [NoResp EXCEPT !.route = route, !.status = status_code,
                 !.detail = detail, !.storeOps = ops]

ProductsDefaultLimit == 100

FeaturedDefaultLimit == 6

QChoices == {None, Some(<<>>), Some(S_dot), Some(C_beras)}

CategoryChoices == {None, Some(C_beras)}

\* get_documents is given a number of records.
ProductLimits == {0, 1, ProductsDefaultLimit}

FeaturedLimits == {0 - 1, 0, 1, FeaturedDefaultLimit}

ContactBodies ==
  { [name |-> "Ani", email |-> "ani@example.com", message |-> "halo"],
    [name |-> "Budi", email |-> "budi@example.com", phone |-> Some("0812"),
     message |-> "stok?"],
    [name |-> "Ani", email |-> "ani@example.com"] }

-----------------------------------------------------------------------------
(* Startup seeding *)

\* for p in sample_products[i..]: create_document("product", p); the insert
\* of record failAt raises (0: none does).
RECURSIVE SeedLoop(_, _, _, _, _)
SeedLoop(avail, st, nid, i, failAt) ==
  IF i > Len(sample_products) THEN
    [raised |-> None, store |-> st, nextId |-> nid, path |-> "seeded"]
  ELSE
    LET r == create_document(avail, i = failAt, st, nid, "product",
                             sample_products[i])
    IN IF r.raised # None
       THEN [raised |-> r.raised, store |-> st, nextId |-> nid,
             path |-> "failed"]
       ELSE SeedLoop(avail, r.store, r.nextId, i + 1, failAt)

\* A fault: the emptiness check dropped, every startup seeds.
SeedGuardAlways(count) == FALSE

\* if count > 0: return
SeedGuard(count) == count > 0

_seed_products_if_empty(avail, st, nid, countFails, failAt) ==
  IF ~avail THEN
    [raised |-> None, store |-> st, nextId |-> nid, path |-> "unavailable"]
  ELSE IF countFails THEN
    [raised |-> Some("count_documents failed"), store |-> st,
     nextId |-> nid, path |-> "failed"]
  ELSE IF SeedGuard(Len(st.product)) THEN
    [raised |-> None, store |-> st, nextId |-> nid, path |-> "skipped"]
  ELSE SeedLoop(avail, st, nid, 1, failAt)

\* A fault: no try/except, a seeding failure aborts startup.
StartupPropagates(raised) == IF raised # None THEN "aborted" ELSE "serving"

\* try: ... except Exception as e: print(...): startup completes either way.
StartupEnds(raised) == "serving"

startup_event ==
  /\ phase = "starting"
  /\ \E countFails \in BOOLEAN, failAt \in 0..Len(sample_products) :
       LET r == _seed_products_if_empty(dbAvailable, store, nextId,
                                        countFails, failAt)
       IN /\ store' = r.store
          /\ nextId' = r.nextId
          /\ seedPath' = r.path
          /\ printed' = IF r.raised # None THEN Some(r.raised[1]) ELSE None
          /\ phase' = StartupEnds(r.raised)
  /\ UNCHANGED <<dbAvailable, req, resp>>

\* The process exits and is started again (uvicorn.run): the handle is set
\* again from the environment, the store keeps its records.
Restart ==
  /\ phase = "serving"
  /\ phase' = "starting"
  /\ dbAvailable' \in BOOLEAN
  /\ printed' = None
  /\ seedPath' = "none"
  /\ req' = NoReq
  /\ resp' = NoResp
  /\ UNCHANGED <<store, nextId>>

-----------------------------------------------------------------------------
(* Request handlers *)

read_root ==
  /\ phase = "serving"
  /\ req' = [NoReq EXCEPT !.route = "/"]
  /\ resp' = [NoResp EXCEPT !.route = "/", !.status = 200,
                            !.message = "Elsea Grosir Backend is running"]
  /\ UNCHANGED <<dbAvailable, store, nextId, phase, printed, seedPath>>

hello ==
  /\ phase = "serving"
  /\ req' = [NoReq EXCEPT !.route = "/api/hello"]
  /\ resp' = [NoResp EXCEPT !.route = "/api/hello", !.status = 200,
                            !.message = "Hello from Elsea Grosir API"]
  /\ UNCHANGED <<dbAvailable, store, nextId, phase, printed, seedPath>>

PopAll(docs) == [i \in 1..Len(docs) |-> PopId(docs[i])]

AllValid(docs) == \A i \in 1..Len(docs) : ProductValid(docs[i])

Products(docs) == [i \in 1..Len(docs) |-> Product(docs[i])]

\* A fault: the categories left in the order of the documents.
CategoriesUnsorted(docs) == Distinct(docs, "category")

\* sorted(list({d["category"] for d in docs if "category" in d}))
CategoriesOf(docs) == sorted(Distinct(docs, "category"))

\* A fault: an empty success instead of the 500.
ProductsUnavailableEmpty(route) ==
  [NoResp EXCEPT !.route = route, !.status = 200]

\* if db is None: raise HTTPException(status_code=500, ...)
ProductsUnavailable(route) ==
  HTTPException(route, 500, "Database not available", <<>>)

list_products_response(avail, st, q, category, limit, fails) ==
  IF ~avail THEN ProductsUnavailable("/api/products")
  ELSE IF fails THEN StoreError("/api/products", <<"find">>)
  ELSE
    LET docs == PopAll(get_documents(st, "product",
                                     BuildFilter(q, category), limit))
    IN IF ~AllValid(docs) THEN Unhandled("/api/products", <<"find">>)
       ELSE [NoResp EXCEPT !.route = "/api/products", !.status = 200,
                           !.items = Products(docs),
                           !.total = Len(Products(docs)),
                           !.categories = CategoriesOf(docs),
                           !.storeOps = <<"find">>]

list_products ==
  /\ phase = "serving"
  /\ \E q \in QChoices, category \in CategoryChoices, limit \in ProductLimits,
        fails \in BOOLEAN :
       /\ req' = [NoReq EXCEPT !.route = "/api/products", !.q = q,
                               !.category = category, !.limit = limit]
       /\ resp' = list_products_response(dbAvailable, store, q, category,
                                         limit, fails)
  /\ UNCHANGED <<dbAvailable, store, nextId, phase, printed, seedPath>>

\* A fault: the `if c` filter dropped.
CategoriesKeepFalsy(cats) == sorted(cats)

\* sorted([c for c in cats if c])
NonEmptySorted(cats) == sorted(SelectSeq(cats, LAMBDA c : c # <<>>))

list_categories_response(avail, st, fails) ==
  IF ~avail THEN [NoResp EXCEPT !.route = "/api/categories", !.status = 200]
  ELSE IF fails THEN StoreError("/api/categories", <<"distinct">>)
  ELSE [NoResp EXCEPT !.route = "/api/categories", !.status = 200,
                      !.list = NonEmptySorted(Distinct(st.product, "category")),
                      !.storeOps = <<"distinct">>]

list_categories ==
  /\ phase = "serving"
  /\ \E fails \in BOOLEAN :
       /\ req' = [NoReq EXCEPT !.route = "/api/categories"]
       /\ resp' = list_categories_response(dbAvailable, store, fails)
  /\ UNCHANGED <<dbAvailable, store, nextId, phase, printed, seedPath>>

\* The cursor of featured_products, over one order the sort can give.
featured_cursor(ordered, limit) == CursorLimit(ordered, limit)

featured_products_response(avail, ordered, limit, fails) ==
  IF ~avail THEN [NoResp EXCEPT !.route = "/api/featured", !.status = 200]
  ELSE IF fails THEN StoreError("/api/featured", <<"find">>)
  ELSE
    LET docs == PopAll(featured_cursor(ordered, limit))
    IN IF ~AllValid(docs) THEN Unhandled("/api/featured", <<"find">>)
       ELSE [NoResp EXCEPT !.route = "/api/featured", !.status = 200,
                           !.items = Products(docs),
                           !.storeOps = <<"find">>]

featured_products ==
  /\ phase = "serving"
  /\ \E limit \in FeaturedLimits, fails \in BOOLEAN :
       \E ordered \in SortedByDiscountDesc(
            SelectSeq(store.product,
                      LAMBDA d : DiscountAtLeast(d, FeaturedMinDiscount))) :
         /\ req' = [NoReq EXCEPT !.route = "/api/featured", !.limit = limit]
         /\ resp' = featured_products_response(dbAvailable, ordered, limit,
                                               fails)
  /\ UNCHANGED <<dbAvailable, store, nextId, phase, printed, seedPath>>

\* A fault: the message written to the product collection.
ContactCollectionProduct == "product"

\* create_document("contactmessage", msg)
ContactCollection == "contactmessage"

\* The body is validated as a ContactMessage before the handler runs; the
\* handler turns any exception of create_document into a 500 with its text.
submit_contact_outcome(avail, st, nid, body, fails) ==
  IF ~ContactValid(body) THEN
    [store |-> st, nextId |-> nid,
     resp |-> [NoResp EXCEPT !.route = "/api/contact", !.status = 422,
                             !.detail = "validation error"]]
  ELSE
    LET r == create_document(avail, fails, st, nid, ContactCollection,
                             ContactMessage(body))
    IN IF r.raised # None
       THEN [store |-> r.store, nextId |-> r.nextId,
             resp |-> [HTTPException("/api/contact", 500, r.raised[1], r.ops)
                         EXCEPT !.storeError = (r.ops # <<>>)]]
       ELSE [store |-> r.store, nextId |-> r.nextId,
             resp |-> [NoResp EXCEPT !.route = "/api/contact", !.status = 200,
                                     !.body_status = "ok", !.id = r.id,
                                     !.storeOps = r.ops]]

submit_contact ==
  /\ phase = "serving"
  /\ Len(store.contactmessage) < MaxContacts
  /\ \E body \in ContactBodies, fails \in BOOLEAN :
       LET out == submit_contact_outcome(dbAvailable, store, nextId, body,
                                         fails)
       IN /\ req' = [NoReq EXCEPT !.route = "/api/contact",
                               !.body = Some(body)]
          /\ resp' = out.resp
          /\ store' = out.store
          /\ nextId' = out.nextId
  /\ UNCHANGED <<dbAvailable, phase, printed, seedPath>>

\* The names of the collections that hold a record.
CollectionNames(st) ==
  SelectSeq(<<"product", "contactmessage">>, LAMBDA c : st[c] # <<>>)

test_database_response(avail, st, fails) ==
  IF ~avail THEN
    [NoResp EXCEPT !.route = "/test", !.status = 200,
                   !.message = "Available but not initialized"]
  ELSE IF fails THEN
    [NoResp EXCEPT !.route = "/test", !.status = 200,
                   !.message = "Connected but Error",
                   !.storeOps = <<"list_collection_names">>]
  ELSE
    [NoResp EXCEPT !.route = "/test", !.status = 200,
                   !.message = "Connected & Working",
                   !.collections = SubSeq(CollectionNames(st), 1,
                                          Min(10, Len(CollectionNames(st)))),
                   !.storeOps = <<"list_collection_names">>]

test_database ==
  /\ phase = "serving"
  /\ \E fails \in BOOLEAN :
       /\ req' = [NoReq EXCEPT !.route = "/test"]
       /\ resp' = test_database_response(dbAvailable, store, fails)
  /\ UNCHANGED <<dbAvailable, store, nextId, phase, printed, seedPath>>

-----------------------------------------------------------------------------
(* The specification *)

Init ==
  /\ dbAvailable \in BOOLEAN
  /\ store \in {[product |-> c, contactmessage |-> <<>>] : c \in InitContents}
  /\ nextId = Len(PoolDocs) + 1
  /\ phase = "starting"
  /\ printed = None
  /\ seedPath = "none"
  /\ req = NoReq
  /\ resp = NoResp

Next ==
  \/ startup_event
  \/ Restart
  \/ read_root
  \/ hello
  \/ list_products
  \/ list_categories
  \/ featured_products
  \/ submit_contact
  \/ test_database

Spec == Init /\ [][Next]_vars

-----------------------------------------------------------------------------
(* Properties *)

\* `s` occurs in `text` as a case-insensitive substring.
ContainsIgnoreCase(text, s) ==
  \E off \in 0..(Len(text) - Len(s)) :
    \A i \in 1..Len(s) : Lower(s[i]) = Lower(text[off + i])

StrictlyAscending(s) == \A i \in 1..(Len(s) - 1) : StrLess(s[i], s[i + 1])

ProductsOk == resp.route = "/api/products" /\ resp.status = 200

FeaturedOk == resp.route = "/api/featured" /\ resp.status = 200

\* C1: every item GET /api/products returns satisfies every supplied filter:
\* its category equals a non-empty `category` exactly, and its title or its
\* description contains a non-empty `q` as a case-insensitive substring.
C1_ItemsSatisfyFilters ==
  ProductsOk =>
    \A i \in 1..Len(resp.items) :
      LET item == resp.items[i]
      IN /\ Truthy(req.category) => item.category = req.category[1]
         /\ Truthy(req.q) =>
              \/ ContainsIgnoreCase(item.title, req.q[1])
              \/ /\ item.description # None
                 /\ ContainsIgnoreCase(item.description[1], req.q[1])

\* C2: the list GET /api/featured returns is sorted by discount,
\* non-increasing, every item has discount >= 5, and it has at most `limit`
\* items (no item when `limit` is below 1).
C2_FeaturedSortedCapped ==
  FeaturedOk =>
    /\ \A i \in 1..(Len(resp.items) - 1) :
         resp.items[i].discount >= resp.items[i + 1].discount
    /\ \A i \in 1..Len(resp.items) : resp.items[i].discount >= 5
    /\ Len(resp.items) <= (IF req.limit < 0 THEN 0 ELSE req.limit)

\* C3: a startup run over a non-empty product collection inserts nothing:
\* the collection is the same after the run as before it.
C3_SeedIdempotent ==
  [][(phase = "starting" /\ store.product # <<>>) =>
       store'.product = store.product]_vars

\* A startup run found the five sample products of an earlier run and
\* skipped seeding.
C3_Witness ==
  /\ phase = "serving"
  /\ seedPath = "skipped"
  /\ Len(store.product) = Len(sample_products)
  /\ \A i \in 1..Len(store.product) :
       PopId(store.product[i]) = sample_products[i]

\* C4: POST /api/contact with name, email and message either fails with 500
\* and writes nothing, or inserts exactly one record, the message, into
\* contactmessage and returns status "ok" with a non-empty id; a body without
\* `message` is rejected as invalid and no store write is made.
C4_ContactInsertsOne ==
  [][(phase = "serving" /\ req'.route = "/api/contact") =>
       LET body == req'.body[1]
           before == store.contactmessage
           after == store'.contactmessage
       IN /\ {"name", "email", "message"} \subseteq DOMAIN body =>
               \/ resp'.status = 500 /\ store' = store
               \/ /\ resp'.status = 200
                  /\ resp'.body_status = "ok"
                  /\ resp'.id # <<>>
                  /\ Len(after) = Len(before) + 1
                  /\ SubSeq(after, 1, Len(before)) = before
                  /\ PopId(after[Len(after)]) = ContactMessage(body)
                  /\ store'.product = store.product
          /\ ~Has(body, "message") =>
               /\ resp'.status = 422
               /\ resp'.body_status # "ok"
               /\ resp'.storeOps = <<>>
               /\ store' = store]_vars

\* A valid message was stored and answered "ok".
C4_Witness ==
  /\ resp.route = "/api/contact"
  /\ resp.status = 200
  /\ resp.body_status = "ok"
  /\ Len(store.contactmessage) = 1

\* C5: with the store unavailable, /api/products answers 500,
\* /api/categories and /api/featured answer an empty list, /api/contact
\* answers a valid message with 500 and the error's text and never "ok";
\* none of them queries or writes the store.
C5_Unavailable ==
  ~dbAvailable =>
    /\ resp.route = "/api/products" =>
         resp.status = 500 /\ resp.storeOps = <<>>
    /\ resp.route = "/api/categories" =>
         resp.status = 200 /\ resp.list = <<>> /\ resp.storeOps = <<>>
    /\ resp.route = "/api/featured" =>
         resp.status = 200 /\ resp.items = <<>> /\ resp.storeOps = <<>>
    /\ resp.route = "/api/contact" =>
         /\ resp.body_status # "ok"
         /\ resp.storeOps = <<>>
         /\ ContactValid(req.body[1]) =>
              resp.status = 500 /\ resp.detail = "StoreUnavailable"

\* A valid message was refused with 500 while the store was unavailable and
\* the product collection held records.
C5_Witness ==
  /\ ~dbAvailable
  /\ store.product # <<>>
  /\ resp.route = "/api/contact"
  /\ ContactValid(req.body[1])
  /\ resp.status = 500

\* C6: when a read query raises a store error, /api/categories and
\* /api/featured answer an empty result instead of an error, and
\* /api/products answers 500.
C6_ReadErrorsDegrade ==
  (dbAvailable /\ resp.storeError) =>
    /\ resp.route = "/api/categories" => resp.status = 200 /\ resp.list = <<>>
    /\ resp.route = "/api/featured" => resp.status = 200 /\ resp.items = <<>>
    /\ resp.route = "/api/products" => resp.status = 500

\* The category values of the documents of the product collection.
StoredCategories ==
  {store.product[i].category :
     i \in {j \in 1..Len(store.product) : Has(store.product[j], "category")}}

\* C7: the list GET /api/categories returns from the store is sorted
\* ascending without duplicates, holds no empty value, and holds exactly the
\* distinct non-empty category values of the products of the collection.
C7_Categories ==
  (dbAvailable /\ resp.route = "/api/categories" /\ resp.status = 200) =>
    /\ StrictlyAscending(resp.list)
    /\ <<>> \notin Range(resp.list)
    /\ Range(resp.list) = StoredCategories \ {<<>>}

\* One category was listed from a collection that also holds a product
\* with an empty category.
C7_Witness ==
  /\ dbAvailable
  /\ resp.route = "/api/categories"
  /\ resp.status = 200
  /\ Len(resp.list) = 1
  /\ <<>> \in StoredCategories

C9_StartupCompletes ==
  /\ phase \in {"starting", "serving"}
  /\ phase = "starting" => ENABLED startup_event
  /\ seedPath \in {"failed", "seeded", "skipped", "unavailable"} =>
       phase = "serving"
  /\ seedPath = "failed" <=> printed # None
  /\ phase = "serving" => ENABLED hello

\* Seeding failed after some of the inserts and the service serves.
C9_Witness ==
  /\ phase = "serving"
  /\ seedPath = "failed"
  /\ printed = Some("WriteError")
  /\ Len(store.product) \in 1..(Len(sample_products) - 1)
  /\ resp.route = "/api/hello"

====
